---- MODULE Spec2Model ----
(***************************************************************************)
(* A model of the file distributor (cmd/distributor/main.go): the upload   *)
(* handler splits a file in len(servers) parts and stores part i on        *)
(* backend i from one goroutine per part, the registry fileChunksDB maps a *)
(* resource id to its chunk records under dbMutex, and the download        *)
(* handler walks the records of a resource and concatenates the chunks.    *)
(*                                                                         *)
(* Orders, part indexes and backend indexes are zero-based as in the code. *)
(* A handler is cut in steps at every point where another goroutine can    *)
(* observe or change shared state: Lock/Unlock of dbMutex, the start and   *)
(* the end of a backend's SaveChunk/GetChunk, the write and the read of    *)
(* the handler's err variable, which the upload goroutines share.          *)
(***************************************************************************)
EXTENDS Integers, Sequences, FiniteSets, TLC

\* ------------------------------------------------------------------ bounds

\* Largest number of configured backends of specification Spec.
MaxServers == 2

\* Longest byte buffer handed to splitFile, and largest number of backends,
\* in specification SpecSplit.
MaxLen == 5
MaxParts == 4

\* Specification Spec6 explores the schedules in which at most this many of
\* an upload's goroutines are between their Lock and their return at a time.
MaxInFlight == 2

\* main.go:139-146: the six addresses, one backend each (specification Spec6).
NumAddresses == 6

\* main.go:446 and main.go:477: the handlers log the first 10 bytes.
LogPrefix == 10

\* ------------------------------------------------------------------ inputs

Bytes == {7, 9}
\* The upload requests, in the order the server accepts them, and the
\* download requests.
UploadOrder == <<"u1", "u2">>
Uploads == {UploadOrder[k] : k \in DOMAIN UploadOrder}
Downloads == {"d1"}
\* The files a client uploads: a name and the bytes.
Files == {[name |-> "a.txt", data |-> <<7, 9, 7>>], [name |-> "b.txt", data |-> <<>>]}
\* The values uuid.New() hands out, in the order it hands them out; the last
\* one is never issued, there being fewer uploads.
UUIDs == <<"r1", "r2", "r3">>
Methods == {"GET", "POST"}
\* What reading the multipart file does: nothing wrong, io.Copy fails,
\* io.ReadAll fails.
ReadFaults == {"none", "copy", "readall"}

VARIABLES
    servers,       \* servers[i]: the storage map of backend i (name -> chunk)
    faulty,        \* the backends whose SaveChunk returns an error
    fileChunksDB,  \* resource id -> sequence of fileChunkInfo
    dbMutex,       \* the goroutine holding dbMutex, or Free
    up,            \* up[u]: the uploadHandler call u
    task,          \* task[u][i]: the goroutine g.Go started for part i
    dl,            \* dl[d]: the downloadHandler call d
    nextID,        \* how many resource ids generateResourceID has handed out
    fatal,         \* the runtime ended the process (concurrent map access)
    splitIn,       \* SpecSplit: the buffer handed to splitFile
    splitOut       \* SpecSplit: what splitFile returned, or NotCalled

vars == <<servers, faulty, fileChunksDB, dbMutex, up, task, dl, nextID, fatal,
          splitIn, splitOut>>

\* ----------------------------------------------------------- pure helpers

Range(s) == {s[k] : k \in DOMAIN s}

RECURSIVE SeqsUpTo(_, _)
SeqsUpTo(S, n) ==
    IF n = 0 THEN {<<>>}
    ELSE LET shorter == SeqsUpTo(S, n - 1)
         IN shorter \cup {Append(s, b) : s \in {t \in shorter : Len(t) = n - 1}, b \in S}

len(servs) == Cardinality(DOMAIN servs)

Indexes(n) == 0 .. (n - 1)

\* file[lo:hi] of Go, zero-based, hi excluded.
Slice(file, lo, hi) == SubSeq(file, lo + 1, hi)

RECURSIVE ConcatParts(_, _)
\* The parts 0..n-1 of a split, one after the other.
ConcatParts(parts, n) ==
    IF n = 0 THEN <<>> ELSE ConcatParts(parts, n - 1) \o parts[n - 1]

RECURSIVE SumLen(_, _)
SumLen(parts, n) ==
    IF n = 0 THEN 0 ELSE SumLen(parts, n - 1) + Len(parts[n - 1])

\* sha256 of the bytes, printed in hex: distinct inputs, distinct digests.
sha256(bytes) == [alg |-> "sha256", of |-> bytes]

\* multipart.File: the bytes and the read offset.
OpenFile(content) == [data |-> content, off |-> 0]

\* What a read to EOF returns, and the file after it.
ReadToEOF(file) == Slice(file.data, file.off, Len(file.data))
AtEOF(file) == [file EXCEPT !.off = Len(file.data)]

generateResourceID(n) == UUIDs[n + 1]

fileChunkInfo(resourceID, filename, id) ==
    [ResourceID |-> resourceID, FileName |-> filename, Order |-> id, URL |-> "TBD"]

chunk(order, data) == [order |-> order, data |-> data]

\* ------------------------------------------------------------------ state

Free == [kind |-> "free", req |-> "", id |-> -1]
Holder(kind, req, id) == [kind |-> kind, req |-> req, id |-> id]

NotCalled == [called |-> FALSE]

IdleUpload ==
    [pc |-> "idle", filename |-> "", content |-> <<>>, checksum |-> sha256(<<>>),
     fileBytes |-> <<>>, parts |-> <<>>, resourceID |-> "", err |-> "nil",
     status |-> "", resp |-> <<>>]

\* getCalls (the backends GetChunk was called on), dbReads (the lookups in
\* the registry) and after (what the upload that owns the resource id had
\* answered when the download was called) record the call's history.
IdleDownload ==
    [pc |-> "idle", method |-> "", resourceID |-> "", chunks |-> <<>>, i |-> 0,
     buf |-> <<>>, fileName |-> "", status |-> "", body |-> <<>>,
     getCalls |-> <<>>, dbReads |-> 0, after |-> ""]

\* newStorageClient: an empty storage map.
newStorageClient == <<>>

InitCommon ==
    /\ fileChunksDB = <<>>
    /\ dbMutex = Free
    /\ up = [u \in Uploads |-> IdleUpload]
    /\ dl = [d \in Downloads |-> IdleDownload]
    /\ nextID = 0
    /\ fatal = FALSE

\* main.go:66-70: one StorageClient per address. The handlers only use the
\* interface (main.go:150-153): a slot holds the in-memory client of
\* newStorageClient, or a client whose SaveChunk returns an error.
Init ==
    /\ InitCommon
    /\ \E n \in 1 .. MaxServers :
          /\ servers = [i \in Indexes(n) |-> newStorageClient]
          /\ faulty \in SUBSET Indexes(n)
          /\ task = [u \in Uploads |-> [i \in Indexes(n) |-> "none"]]
    /\ splitIn = <<>>
    /\ splitOut = NotCalled

\* ---------------------------------------------------------- uploadHandler

N == len(servers)

Running == ~fatal

splitFileLastShort(file) ==
    LET parts == len(servers)
        partSize == Len(file) \div parts
    IN [i \in Indexes(parts) |-> Slice(file, i * partSize, (i + 1) * partSize)]

\* main.go:219-235
splitFile(file) ==
    LET parts == len(servers)
        partSize == Len(file) \div parts
    IN [i \in Indexes(parts) |->
          IF i = parts - 1
          THEN Slice(file, i * partSize, Len(file))
          ELSE Slice(file, i * partSize, (i + 1) * partSize)]

\* The requests accepted before u have left their first step.
InOrder(u) ==
    \A k \in DOMAIN UploadOrder :
        UploadOrder[k] = u => \A j \in 1 .. (k - 1) : up[UploadOrder[j]].pc # "idle"

\* main.go:263-310: the method check, FormFile, the checksum, the read of the
\* file, the split and the fresh resource id. io.Copy reads the file to its
\* end to feed the hash; io.ReadAll then reads the same file from where the
\* copy left it.
UploadBegin(u, method, hasFile, filename, content, fault) ==
    /\ Running
    /\ up[u].pc = "idle"
    /\ InOrder(u)
    /\ IF method # "POST"
       THEN /\ up' = [up EXCEPT ![u].pc = "done", ![u].status = "405"]
            /\ UNCHANGED nextID
       ELSE IF ~hasFile
       THEN /\ up' = [up EXCEPT ![u].pc = "done", ![u].status = "400"]
            /\ UNCHANGED nextID
       ELSE LET file == OpenFile(content)
                hashed == ReadToEOF(file)
                afterCopy == AtEOF(file)
                fileBytes == ReadToEOF(afterCopy)
            IN IF fault # "none"
               THEN /\ up' = [up EXCEPT ![u].pc = "done", ![u].status = "500"]
                    /\ UNCHANGED nextID
               ELSE /\ up' = [up EXCEPT ![u].pc = "create",
                                        ![u].filename = filename,
                                        ![u].content = content,
                                        ![u].checksum = sha256(hashed),
                                        ![u].fileBytes = fileBytes,
                                        ![u].parts = splitFile(fileBytes),
                                        ![u].resourceID = generateResourceID(nextID)]
                    /\ nextID' = nextID + 1
    /\ UNCHANGED <<servers, faulty, fileChunksDB, dbMutex, task, dl, fatal,
                   splitIn, splitOut>>

\* main.go:337: dbMutex.Lock() of the handler.
UploadLock(u) ==
    /\ Running
    /\ up[u].pc = "create"
    /\ dbMutex = Free
    /\ dbMutex' = Holder("upload", u, -1)
    /\ up' = [up EXCEPT ![u].pc = "created"]
    /\ UNCHANGED <<servers, faulty, fileChunksDB, task, dl, nextID, fatal,
                   splitIn, splitOut>>

CreateEmptyLater(db, resourceID) == db

\* main.go:338: fileChunksDB[resourceID] = make([]fileChunkInfo, 0, len(parts))
CreateEmpty(db, resourceID) == (resourceID :> <<>>) @@ db

\* main.go:338-339: the empty entry, and dbMutex.Unlock().
UploadCreate(u) ==
    /\ Running
    /\ up[u].pc = "created"
    /\ dbMutex = Holder("upload", u, -1)
    /\ fileChunksDB' = CreateEmpty(fileChunksDB, up[u].resourceID)
    /\ dbMutex' = Free
    /\ up' = [up EXCEPT ![u].pc = "spawn"]
    /\ UNCHANGED <<servers, faulty, task, dl, nextID, fatal, splitIn, splitOut>>

\* main.go:341-354: g.Go starts one goroutine per part; none is limited or
\* cancelled (the group's context is dropped). Each goroutine has its own i
\* and part (the loop variable is per iteration: the module is built with a
\* toolchain that has "go work vendor", scripts/sync-deps.sh).
UploadSpawn(u) ==
    /\ Running
    /\ up[u].pc = "spawn"
    /\ task' = [task EXCEPT ![u] = [i \in Indexes(N) |-> "lock"]]
    /\ up' = [up EXCEPT ![u].pc = "wait"]
    /\ UNCHANGED <<servers, faulty, fileChunksDB, dbMutex, dl, nextID, fatal,
                   splitIn, splitOut>>

\* main.go:317: mx.Lock() of uploadFn.
TaskLock(u, i) ==
    /\ Running
    /\ task[u][i] = "lock"
    /\ dbMutex = Free
    /\ dbMutex' = Holder("task", u, i)
    /\ task' = [task EXCEPT ![u][i] = "locked"]
    /\ UNCHANGED <<servers, faulty, fileChunksDB, up, dl, nextID, fatal,
                   splitIn, splitOut>>

AppendRecordOverwrite(db, resourceID, record) ==
    (resourceID :> <<record>>) @@ db

\* main.go:319-328: chunks := fileChunksDB[id]; append; store back. A key
\* the map does not hold reads as the nil slice.
AppendRecord(db, resourceID, record) ==
    LET chunks == IF resourceID \in DOMAIN db THEN db[resourceID] ELSE <<>>
    IN (resourceID :> Append(chunks, record)) @@ db

TaskRecordOrderZero(u, i) == fileChunkInfo(up[u].resourceID, up[u].filename, 0)

\* main.go:321-326: the record of part id.
TaskRecord(u, i) == fileChunkInfo(up[u].resourceID, up[u].filename, i)

\* main.go:319-330: the append under the lock, and mx.Unlock().
TaskAppend(u, i) ==
    /\ Running
    /\ task[u][i] = "locked"
    /\ dbMutex = Holder("task", u, i)
    /\ fileChunksDB' = AppendRecord(fileChunksDB, up[u].resourceID, TaskRecord(u, i))
    /\ dbMutex' = Free
    /\ task' = [task EXCEPT ![u][i] = "send"]
    /\ UNCHANGED <<servers, faulty, up, dl, nextID, fatal, splitIn, splitOut>>

srvFirst(id) == 0

\* main.go:315: srv := servers[id], the backend of part id.
srv(id) == id

\* main.go:334: the goroutine enters srv.SaveChunk of servers[id].
TaskSaveChunkCall(u, i) ==
    /\ Running
    /\ task[u][i] = "send"
    /\ task' = [task EXCEPT ![u][i] = "inSave"]
    /\ UNCHANGED <<servers, faulty, fileChunksDB, dbMutex, up, dl, nextID, fatal,
                   splitIn, splitOut>>

\* The uploads with a goroutine inside SaveChunk of backend i, writing its
\* storage map, and the downloads inside its GetChunk, reading it.
InsideSave(i) == {w \in Uploads : task[w][i] = "inSave" /\ i \notin faulty}
InsideGet(i) ==
    {d \in Downloads : dl[d].pc = "inGet" /\ dl[d].chunks[dl[d].i + 1].Order = i}

\* main.go:208-217: s.storage[name] = chunk{order, data}; return nil.
SaveChunk(storage, name, order, data) == (name :> chunk(order, data)) @@ storage

\* main.go:334 and 348: SaveChunk returns and the goroutine assigns the result
\* to err, the variable of uploadHandler that every goroutine of the upload
\* shares. A backend of faulty returns an error and stores nothing
\* (storageServer.SaveChunk, main.go:164-190, on a failed POST). The storage
\* map is not synchronized: when another goroutine is inside SaveChunk or
\* GetChunk of the same backend the runtime may end the process.
TaskSaveChunkReturn(u, i) ==
    /\ Running
    /\ task[u][i] = "inSave"
    /\ \/ /\ fatal' = FALSE
          /\ IF i \in faulty
             THEN /\ servers' = servers
                  /\ up' = [up EXCEPT ![u].err = "error"]
             ELSE /\ servers' = [servers EXCEPT ![srv(i)] =
                                   SaveChunk(@, up[u].resourceID, i, up[u].parts[i])]
                  /\ up' = [up EXCEPT ![u].err = "nil"]
          /\ task' = [task EXCEPT ![u][i] = "check"]
       \/ /\ i \notin faulty
          /\ (InsideSave(i) \ {u}) \cup InsideGet(i) # {}
          /\ fatal' = TRUE
          /\ UNCHANGED <<servers, up, task>>
    /\ UNCHANGED <<faulty, fileChunksDB, dbMutex, dl, nextID, splitIn, splitOut>>

\* main.go:348-352: if err != nil, on the shared err.
TaskCheck(u, i) ==
    /\ Running
    /\ task[u][i] = "check"
    /\ task' = [task EXCEPT ![u][i] = IF up[u].err # "nil" THEN "retErr" ELSE "retNil"]
    /\ UNCHANGED <<servers, faulty, fileChunksDB, dbMutex, up, dl, nextID, fatal,
                   splitIn, splitOut>>

\* errgroup's Wait: the first non-nil error the goroutines returned.
GroupWait(u) ==
    IF \E i \in Indexes(N) : task[u][i] = "retErr" THEN "error" ELSE "nil"

uploadResponse(u) == [resource |-> up[u].resourceID, checksum |-> up[u].checksum]

OnFailureDelete(db, resourceID) ==
    [id \in DOMAIN db \ {resourceID} |-> db[id]]

\* main.go:356-360: the failure branch answers 500 and returns; the registry
\* is what the goroutines left.
OnFailure(db, resourceID) == db

\* main.go:356-384: g.Wait() once every goroutine returned, then the failure
\* or the 201 with {resource, checksum}.
UploadWait(u) ==
    /\ Running
    /\ up[u].pc = "wait"
    /\ \A i \in Indexes(N) : task[u][i] \in {"retNil", "retErr"}
    /\ LET err == GroupWait(u)
       IN up' = [up EXCEPT ![u].pc = "done",
                           ![u].err = err,
                           ![u].status = IF err # "nil" THEN "500" ELSE "201",
                           ![u].resp = IF err # "nil" THEN <<>> ELSE uploadResponse(u)]
          /\ fileChunksDB' = IF err # "nil"
                             THEN OnFailure(fileChunksDB, up[u].resourceID)
                             ELSE fileChunksDB
    /\ UNCHANGED <<servers, faulty, dbMutex, task, dl, nextID, fatal,
                   splitIn, splitOut>>

UploadOf(U) ==
    \/ \E u \in U, method \in Methods, hasFile \in BOOLEAN,
          f \in Files, fault \in ReadFaults :
          UploadBegin(u, method, hasFile, f.name, f.data, fault)
    \/ \E u \in U : UploadLock(u)
    \/ \E u \in U : UploadCreate(u)
    \/ \E u \in U : UploadSpawn(u)
    \/ \E u \in U, i \in Indexes(N) : TaskLock(u, i)
    \/ \E u \in U, i \in Indexes(N) : TaskAppend(u, i)
    \/ \E u \in U, i \in Indexes(N) : TaskSaveChunkCall(u, i)
    \/ \E u \in U, i \in Indexes(N) : TaskSaveChunkReturn(u, i)
    \/ \E u \in U, i \in Indexes(N) : TaskCheck(u, i)
    \/ \E u \in U : UploadWait(u)

Upload == UploadOf(Uploads)

\* -------------------------------------------------------- downloadHandler

\* The resource ids a client may ask for: none, and every id there is.
ResourceIDs == {""} \cup Range(UUIDs)

\* What the upload that was given resourceID has answered so far ("" when it
\* has not answered, or when no upload was given the id).
AnswerOf(resourceID) ==
    IF \E u \in Uploads : up[u].resourceID = resourceID /\ resourceID # ""
    THEN up[CHOOSE u \in Uploads : up[u].resourceID = resourceID].status
    ELSE ""

MissingIDNever(resourceID) == FALSE

\* main.go:394: resourceID == ""
MissingID(resourceID) == resourceID = ""

\* main.go:387-398: the method check and the resource_id parameter.
DownloadBegin(d, method, resourceID) ==
    /\ Running
    /\ dl[d].pc = "idle"
    /\ IF method # "GET"
       THEN dl' = [dl EXCEPT ![d].method = method, ![d].pc = "done",
                             ![d].status = "405"]
       ELSE dl' = [dl EXCEPT ![d].method = method,
                             ![d].resourceID = resourceID,
                             ![d].after = AnswerOf(resourceID),
                             ![d].pc = IF MissingID(resourceID) THEN "done" ELSE "lock",
                             ![d].status = IF MissingID(resourceID) THEN "400" ELSE ""]
    /\ UNCHANGED <<servers, faulty, fileChunksDB, dbMutex, up, task, nextID, fatal,
                   splitIn, splitOut>>

\* main.go:404: dbMutex.Lock().
DownloadLock(d) ==
    /\ Running
    /\ dl[d].pc = "lock"
    /\ dbMutex = Free
    /\ dbMutex' = Holder("download", d, -1)
    /\ dl' = [dl EXCEPT ![d].pc = "locked"]
    /\ UNCHANGED <<servers, faulty, fileChunksDB, up, task, nextID, fatal,
                   splitIn, splitOut>>

\* chunks, ok := fileChunksDB[resourceID]
Get(db, resourceID) ==
    IF resourceID \in DOMAIN db
    THEN [chunks |-> db[resourceID], ok |-> TRUE]
    ELSE [chunks |-> <<>>, ok |-> FALSE]

UnlockDeferred(d) == dbMutex

\* main.go:406: dbMutex.Unlock() of downloadHandler, right after the lookup.
UnlockAfterLookup(d) == Free

\* main.go:405-412: the lookup, dbMutex.Unlock(), and the 404 when the entry
\* is missing or empty. The slice read holds the records appended so far.
DownloadLookup(d) ==
    /\ Running
    /\ dl[d].pc = "locked"
    /\ dbMutex = Holder("download", d, -1)
    /\ dbMutex' = UnlockAfterLookup(d)
    /\ LET got == Get(fileChunksDB, dl[d].resourceID)
       IN IF ~got.ok \/ Len(got.chunks) = 0
          THEN dl' = [dl EXCEPT ![d].pc = "done", ![d].status = "404",
                                ![d].dbReads = @ + 1]
          ELSE dl' = [dl EXCEPT ![d].pc = "fetch", ![d].chunks = got.chunks,
                                ![d].i = 0, ![d].dbReads = @ + 1]
    /\ UNCHANGED <<servers, faulty, fileChunksDB, up, task, nextID, fatal,
                   splitIn, splitOut>>

\* The record the loop of main.go:419 is at.
Info(d) == dl[d].chunks[dl[d].i + 1]

\* main.go:419-435: the file name of the first record, srv := servers[info.Order],
\* and the call of srv.GetChunk(resourceID).
DownloadGetChunkCall(d) ==
    /\ Running
    /\ dl[d].pc = "fetch"
    /\ dl' = [dl EXCEPT ![d].pc = "inGet",
                        ![d].fileName = IF dl[d].i = 0 THEN Info(d).FileName ELSE @,
                        ![d].getCalls = Append(@, Info(d).Order)]
    /\ UNCHANGED <<servers, faulty, fileChunksDB, dbMutex, up, task, nextID, fatal,
                   splitIn, splitOut>>

\* main.go:197-206: ch, ok := s.storage[name]
GetChunk(storage, name) ==
    IF name \in DOMAIN storage
    THEN [ch |-> storage[name], ok |-> TRUE]
    ELSE [ch |-> chunk(0, <<>>), ok |-> FALSE]

\* main.go:463-487: the headers, the log of content[:10] and the body. A
\* content shorter than 10 bytes makes content[:10] panic: net/http recovers
\* the panic and drops the connection, no body is written.
Respond(d, content) ==
    IF Len(content) < LogPrefix
    THEN [dl[d] EXCEPT !.pc = "done", !.status = "panic", !.buf = content]
    ELSE [dl[d] EXCEPT !.pc = "done", !.status = "200", !.buf = content,
                       !.body = content]

FetchFailedRetry(d) == [dl[d] EXCEPT !.pc = "fetch"]

\* main.go:436-440: GetChunk failed: 500, and the handler returns.
FetchFailed(d) == [dl[d] EXCEPT !.pc = "done", !.status = "500"]

\* main.go:435-461: GetChunk returns; a missing chunk ends the call with 500,
\* otherwise the chunk is logged (ch.data[:10]) and written to buf, and after
\* the last record the response is written. ch.data[:10] on a chunk shorter
\* than 10 bytes panics unless the slice's capacity reaches 10, which is what
\* io.ReadAll happened to allocate: either outcome is possible. The read of
\* the unsynchronized storage map may end the process when a SaveChunk of
\* the same backend is under way.
DownloadGetChunkReturn(d) ==
    /\ Running
    /\ dl[d].pc = "inGet"
    /\ LET got == GetChunk(servers[Info(d).Order], dl[d].resourceID)
           content == dl[d].buf \o got.ch.data
       IN \/ /\ ~got.ok
             /\ dl' = [dl EXCEPT ![d] = FetchFailed(d)]
             /\ UNCHANGED fatal
          \/ /\ got.ok
             /\ Len(got.ch.data) < LogPrefix
             /\ dl' = [dl EXCEPT ![d].pc = "done", ![d].status = "panic"]
             /\ UNCHANGED fatal
          \/ /\ got.ok
             /\ IF dl[d].i + 1 = Len(dl[d].chunks)
                THEN dl' = [dl EXCEPT ![d] = Respond(d, content)]
                ELSE dl' = [dl EXCEPT ![d].pc = "fetch", ![d].buf = content,
                                      ![d].i = @ + 1]
             /\ UNCHANGED fatal
          \/ /\ InsideSave(Info(d).Order) # {}
             /\ fatal' = TRUE
             /\ UNCHANGED dl
    /\ UNCHANGED <<servers, faulty, fileChunksDB, dbMutex, up, task, nextID,
                   splitIn, splitOut>>

Download ==
    \/ \E d \in Downloads, method \in Methods, resourceID \in ResourceIDs :
          DownloadBegin(d, method, resourceID)
    \/ \E d \in Downloads : DownloadLock(d)
    \/ \E d \in Downloads : DownloadLookup(d)
    \/ \E d \in Downloads : DownloadGetChunkCall(d)
    \/ \E d \in Downloads : DownloadGetChunkReturn(d)

Next == Upload \/ Download


Spec == Init /\ [][Next]_vars

\* ------------------------------------------ the six backends of main.go

\* main.go:66-70 and 139-146: one backend per address; the backend of index 3
\* fails every SaveChunk. One upload.
Init6 ==
    /\ InitCommon
    /\ servers = [i \in Indexes(NumAddresses) |-> newStorageClient]
    /\ task = [u \in Uploads |-> [i \in Indexes(NumAddresses) |-> "none"]]
    /\ faulty = {3}
    /\ splitIn = <<>>
    /\ splitOut = NotCalled

InFlight(u) ==
    Cardinality({i \in Indexes(N) : task[u][i] \in {"locked", "send", "inSave", "check"}})

\* The steps of the first upload; a goroutine takes its Lock only while
\* fewer than MaxInFlight others are at work.
Next6 ==
    LET u == UploadOrder[1]
    IN \/ \E method \in Methods, hasFile \in BOOLEAN, f \in Files, fault \in ReadFaults :
             UploadBegin(u, method, hasFile, f.name, f.data, fault)
       \/ UploadLock(u)
       \/ UploadCreate(u)
       \/ UploadSpawn(u)
       \/ \E i \in Indexes(N) : InFlight(u) < MaxInFlight /\ TaskLock(u, i)
       \/ \E i \in Indexes(N) : TaskAppend(u, i)
       \/ \E i \in Indexes(N) : TaskSaveChunkCall(u, i)
       \/ \E i \in Indexes(N) : TaskSaveChunkReturn(u, i)
       \/ \E i \in Indexes(N) : TaskCheck(u, i)
       \/ UploadWait(u)

Spec6 == Init6 /\ [][Next6]_vars

\* ------------------------------------------------- splitFile on its own

\* Any number of backends up to MaxParts and any buffer up to MaxLen bytes.
InitSplit ==
    /\ InitCommon
    /\ \E n \in 1 .. MaxParts :
          /\ servers = [i \in Indexes(n) |-> newStorageClient]
          /\ task = [u \in Uploads |-> [i \in Indexes(n) |-> "none"]]
    /\ faulty = {}
    /\ splitIn \in SeqsUpTo(Bytes, MaxLen)
    /\ splitOut = NotCalled

SplitCall ==
    /\ ~splitOut.called
    /\ splitOut' = [called |-> TRUE, parts |-> splitFile(splitIn)]
    /\ UNCHANGED <<servers, faulty, fileChunksDB, dbMutex, up, task, dl, nextID,
                   fatal, splitIn>>

NextSplit == SplitCall

SpecSplit == InitSplit /\ [][NextSplit]_vars

\* C6: for every number of backends N >= 1 and every buffer of length L,
\* L < N included, splitFile returns exactly N parts, indexed 0..N-1, whose
\* lengths sum to L; each of the first N-1 parts has floor(L/N) bytes and the
\* last has L - (N-1)*floor(L/N).
C6_SplitShape ==
    splitOut.called =>
        LET L == Len(splitIn)
            parts == splitOut.parts
        IN /\ DOMAIN parts = Indexes(N)
           /\ Cardinality(DOMAIN parts) = N
           /\ SumLen(parts, N) = L
           /\ \A i \in Indexes(N - 1) : Len(parts[i]) = L \div N
           /\ Len(parts[N - 1]) = L - (N - 1) * (L \div N)

\* A split of a buffer shorter than the number of backends, not empty.
C6_Witness ==
    /\ splitOut.called
    /\ Len(splitIn) > 0
    /\ Len(splitIn) < N
    /\ Len(splitOut.parts[0]) = 0
    /\ Len(splitOut.parts[N - 1]) = Len(splitIn)

\* ------------------------------------------------------------- the claims

\* The upload that was given the resource id.
OwnerOf(resourceID) == CHOOSE u \in Uploads : up[u].resourceID = resourceID
Issued(resourceID) ==
    resourceID # "" /\ \E u \in Uploads : up[u].resourceID = resourceID

\* The goroutine of part i of upload u has appended its record.
Appended(u, i) == task[u][i] \in {"send", "inSave", "check", "retNil", "retErr"}
\* SaveChunk of the goroutine has returned, and returned nil.
SaveReturned(u, i) == task[u][i] \in {"check", "retNil", "retErr"}
Saved(u, i) == SaveReturned(u, i) /\ i \notin faulty

Orders(records) == {records[k].Order : k \in DOMAIN records}

\* C1: a download called after the upload of its resource id answered 201
\* returns the uploaded bytes, in their order, and the uploaded file name.
C1_RoundTrip ==
    \A d \in Downloads :
        (dl[d].pc = "done" /\ dl[d].method = "GET" /\ dl[d].after = "201") =>
            /\ dl[d].status = "200"
            /\ dl[d].body = up[OwnerOf(dl[d].resourceID)].content
            /\ dl[d].fileName = up[OwnerOf(dl[d].resourceID)].filename

\* C2: a record {resourceID, Order = i} is in the registry only if SaveChunk
\* of backend i for that resource has returned, and returned success.
C2_RecordOnlyAfterSave ==
    \A r \in DOMAIN fileChunksDB :
        \A k \in DOMAIN fileChunksDB[r] :
            LET rec == fileChunksDB[r][k]
            IN Issued(rec.ResourceID) /\ Saved(OwnerOf(rec.ResourceID), rec.Order)

\* C3: once an upload has answered 201, the entry of its resource id holds
\* exactly N records and their Orders are exactly 0..N-1.
C3_CompleteEntry ==
    \A u \in Uploads :
        up[u].status = "201" =>
            /\ up[u].resourceID \in DOMAIN fileChunksDB
            /\ Len(fileChunksDB[up[u].resourceID]) = N
            /\ Orders(fileChunksDB[up[u].resourceID]) = Indexes(N)

\* An upload over at least two backends answered 201 and the record of part 0
\* is not the first of its entry.
C3_Witness ==
    \E u \in Uploads :
        /\ up[u].status = "201"
        /\ N >= 2
        /\ fileChunksDB[up[u].resourceID][1].Order # 0

\* C4: with two uploads under way, every record of an entry carries the
\* entry's key, and an entry holds exactly one record for every goroutine of
\* its upload that has appended, whichever upload appended in between.
C4_NoLostUpdate ==
    /\ \A r \in DOMAIN fileChunksDB :
          \A k \in DOMAIN fileChunksDB[r] : fileChunksDB[r][k].ResourceID = r
    /\ \A u \in Uploads :
          up[u].pc \in {"wait", "done"} /\ up[u].resourceID # "" =>
              LET records == fileChunksDB[up[u].resourceID]
                  appended == {i \in Indexes(N) : Appended(u, i)}
              IN /\ Len(records) = Cardinality(appended)
                 /\ Orders(records) = appended
                 /\ \A k \in DOMAIN records : records[k].FileName = up[u].filename

\* Two uploads of different files, both with a record appended and a record
\* still to append.
C4_Witness ==
    \E u, w \in Uploads :
        /\ u # w
        /\ up[u].pc = "wait" /\ up[w].pc = "wait"
        /\ up[u].filename # up[w].filename
        /\ \E i, j \in Indexes(N) : Appended(u, i) /\ ~Appended(u, j)
        /\ \E i, j \in Indexes(N) : Appended(w, i) /\ ~Appended(w, j)

\* C5: a download of a resource id that was never issued, or that was issued
\* to an upload which had failed, ends with 404 and writes no bytes.
C5_NotFound ==
    \A d \in Downloads :
        (/\ dl[d].pc = "done"
         /\ dl[d].method = "GET"
         /\ dl[d].resourceID # ""
         /\ (~Issued(dl[d].resourceID) \/ dl[d].after = "500")) =>
            dl[d].status = "404" /\ dl[d].body = <<>>

\* C7: for an upload that answered 201 the checksum is the digest of the
\* uploaded bytes, splitFile was handed those bytes, and its parts, one after
\* the other, are those bytes.
C7_ChecksumOfSplitInput ==
    \A u \in Uploads :
        up[u].status = "201" =>
            /\ up[u].resp.checksum = sha256(up[u].content)
            /\ up[u].fileBytes = up[u].content
            /\ ConcatParts(up[u].parts, N) = up[u].content

\* C8: an upload one of whose SaveChunk calls returned an error does not
\* answer 201; it answers 201 only when every goroutine's SaveChunk
\* returned nil.
C8_ErrorReported ==
    \A u \in Uploads :
        up[u].status = "201" => \A i \in Indexes(N) : Saved(u, i)

\* C9: with 6 backends of which index 3 fails, an upload that has ended
\* answered with a failure, and its entry holds at most 5 records.
C9_PartialEntry ==
    \A u \in Uploads :
        (N = 6 /\ 3 \in faulty /\ up[u].pc = "done" /\ up[u].resourceID # "") =>
            /\ up[u].status = "500"
            /\ Len(fileChunksDB[up[u].resourceID]) \in 0 .. 5

\* What a download with an empty resource_id has done.
EmptyIDCall(d) ==
    dl[d].pc # "idle" /\ dl[d].resourceID = ""

C10_State ==
    \A d \in Downloads :
        EmptyIDCall(d) =>
            /\ dl[d].pc = "done"
            /\ dl[d].status \in {"400", "405"}
            /\ dl[d].method = "GET" => dl[d].status = "400"
            /\ dl[d].getCalls = <<>>
            /\ dl[d].dbReads = 0
            /\ dl[d].body = <<>>

C10_Step ==
    \A d \in Downloads :
        (dl[d].pc = "idle" /\ dl'[d].pc # "idle" /\ dl'[d].resourceID = "") =>
            UNCHANGED <<fileChunksDB, servers, dbMutex>>

\* C10: a download whose resource_id is empty ends at once with 400 (405 when
\* the method is not GET), calls GetChunk on no backend, does not read the
\* registry and leaves registry, lock and backend storage as they were.
C10_EmptyID == []C10_State /\ [][C10_Step]_vars

\* A GET download with an empty resource_id answered 400 while an upload had
\* records in the registry and goroutines at work.
C10_Witness ==
    \E d \in Downloads, u \in Uploads :
        /\ dl[d].method = "GET" /\ dl[d].resourceID = "" /\ dl[d].status = "400"
        /\ up[u].pc = "wait"
        /\ \E i \in Indexes(N) : Appended(u, i)

\* The orders of the first n records of a download's copy of the entry.
OrdersOf(records, n) == [k \in 1 .. n |-> records[k].Order]

\* The chunks a download has been handed, one after the other.
RECURSIVE Fetched(_, _, _)
Fetched(resourceID, records, n) ==
    IF n = 0 THEN <<>>
    ELSE Fetched(resourceID, records, n - 1)
            \o GetChunk(servers[records[n].Order], resourceID).ch.data

C11_State ==
    \A d \in Downloads :
        /\ Len(dl[d].getCalls) <= Len(dl[d].chunks)
        /\ dl[d].getCalls = OrdersOf(dl[d].chunks, Len(dl[d].getCalls))
        /\ dl[d].status = "500" =>
              /\ dl[d].pc = "done"
              /\ dl[d].body = <<>>
              /\ Len(dl[d].getCalls) = dl[d].i + 1
        /\ dl[d].body # <<>> =>
              /\ Len(dl[d].getCalls) = Len(dl[d].chunks)
              /\ dl[d].body = Fetched(dl[d].resourceID, dl[d].chunks, Len(dl[d].chunks))

C11_Step == \A d \in Downloads : dl[d].pc = "done" => dl'[d] = dl[d]

\* C11: a download whose GetChunk fails ends with 500 at that record, makes
\* no further GetChunk call and writes no body; GetChunk is called once per
\* record, in the entry's order, never twice for a record; a body that is
\* written holds the chunks of every record of the entry.
C11_FetchFailure == []C11_State /\ [][C11_Step]_vars

\* A download that ended with 500 at its second record, the first chunk
\* having been fetched.
C11_Witness ==
    \E d \in Downloads :
        /\ dl[d].status = "500"
        /\ dl[d].i = 1
        /\ Len(dl[d].getCalls) = 2

\* The sequence 0, 1, ..., n-1.
Ascending(n) == [k \in 1 .. n |-> k - 1]

\* C12: the records of every registry entry are in ascending Order, and a
\* download calls GetChunk on the backends 0, 1, ... in that sequence.
C12_AscendingOrder ==
    /\ \A resourceID \in DOMAIN fileChunksDB :
          OrdersOf(fileChunksDB[resourceID], Len(fileChunksDB[resourceID]))
              = Ascending(Len(fileChunksDB[resourceID]))
    /\ \A d \in Downloads : dl[d].getCalls = Ascending(Len(dl[d].getCalls))

\* C13: no two tasks are at the same time inside SaveChunk or GetChunk of the
\* same in-memory backend.
C13_SerializedBackend ==
    \A i \in Indexes(N) \ faulty : Cardinality(InsideSave(i)) + Cardinality(InsideGet(i)) <= 1

C14_State ==
    \A u \in Uploads : \A i \in Indexes(N) :
        task[u][i] # "none" => up[u].resourceID \in DOMAIN fileChunksDB

C14_Step ==
    \A resourceID \in DOMAIN fileChunksDB' \ DOMAIN fileChunksDB :
        \E u \in Uploads :
            /\ up[u].resourceID = resourceID
            /\ dbMutex = Holder("upload", u, -1)
            /\ fileChunksDB'[resourceID] = <<>>
            /\ \A i \in Indexes(N) : task[u][i] = "none"

\* C14: the entry of an upload's resource id is created empty by the handler,
\* under the lock, while none of its tasks has been started; every started
\* task finds the key present, and no task creates an entry.
C14_EntryBeforeTasks == []C14_State /\ [][C14_Step]_vars

\* A task holds the lock for the first append of its upload: the key is
\* there, with no record yet.
C14_Witness ==
    \E u \in Uploads : \E i \in Indexes(N) :
        /\ task[u][i] = "locked"
        /\ up[u].resourceID \in DOMAIN fileChunksDB
        /\ fileChunksDB[up[u].resourceID] = <<>>

C15_State ==
    /\ \A i \in Indexes(N) : \A resourceID \in DOMAIN servers[i] :
          /\ Issued(resourceID)
          /\ servers[i][resourceID].order = i
          /\ servers[i][resourceID].data = up[OwnerOf(resourceID)].parts[i]
          /\ Saved(OwnerOf(resourceID), i)
    /\ \A u \in Uploads :
          /\ DOMAIN task[u] = Indexes(N)
          /\ up[u].resourceID # "" => DOMAIN up[u].parts = Indexes(N)
          /\ up[u].pc = "done" /\ up[u].resourceID # "" =>
                \A i \in Indexes(N) : task[u][i] \in {"retNil", "retErr"}
    /\ \A d \in Downloads :
          dl[d].pc = "inGet" =>
              dl[d].getCalls[Len(dl[d].getCalls)] = dl[d].chunks[dl[d].i + 1].Order

C15_Step ==
    /\ \A u \in Uploads : \A i \in Indexes(N) :
          /\ task[u][i] # "inSave" /\ task'[u][i] = "inSave" => task[u][i] = "send"
          /\ SaveReturned(u, i) => SaveReturned(u, i)'
    /\ \A i \in Indexes(N) :
          servers'[i] # servers[i] =>
              \E u \in Uploads : task[u][i] = "inSave" /\ task'[u][i] = "check"

\* C15: a chunk that backend i stores under a resource id has order i and is
\* part i of that upload's split, saved by the upload's task i; an upload has
\* one task per backend index, each calling SaveChunk once, on its own
\* backend; a download calls GetChunk on the backend whose index is the
\* record's Order.
C15_Positional == []C15_State /\ [][C15_Step]_vars

\* Two backends each hold their chunk of one resource id, and a download is
\* inside GetChunk of backend 1.
C15_Witness ==
    \E d \in Downloads :
        /\ N = 2
        /\ dl[d].pc = "inGet"
        /\ dl[d].chunks[dl[d].i + 1].Order = 1
        /\ \A i \in Indexes(N) : dl[d].resourceID \in DOMAIN servers[i]

\* Upload u was answered 500 after its tasks ran.
FailedUpload(u) == up[u].status = "500" /\ up[u].resourceID # ""

C16_State ==
    \A u \in Uploads :
        FailedUpload(u) =>
            /\ up[u].resourceID \in DOMAIN fileChunksDB
            /\ Orders(fileChunksDB[up[u].resourceID]) = Indexes(N)
            /\ \A i \in Indexes(N) :
                  /\ task[u][i] \in {"retNil", "retErr"}
                  /\ i \notin faulty => up[u].resourceID \in DOMAIN servers[i]

C16_Step ==
    \A u \in Uploads :
        FailedUpload(u)' =>
            /\ fileChunksDB'[up[u].resourceID] = fileChunksDB[up[u].resourceID]
            /\ \A i \in Indexes(N) :
                  /\ task'[u][i] = task[u][i]
                  /\ up[u].resourceID \in DOMAIN servers[i] =>
                        servers'[i][up[u].resourceID] = servers[i][up[u].resourceID]

\* C16: when an upload is answered 500, and ever after, every record its
\* tasks appended is in the registry and every chunk a sibling task saved is
\* on its backend: the failure step and the later steps remove or change
\* none of them, and no task of the upload runs again.
C16_NoRollback == []C16_State /\ [][C16_Step]_vars

\* A failed upload over two backends: the task of backend 1 failed, the chunk
\* of backend 0 and both records are there.
C16_Witness ==
    \E u \in Uploads :
        /\ FailedUpload(u)
        /\ faulty = {1}
        /\ up[u].resourceID \in DOMAIN servers[0]
        /\ Len(fileChunksDB[up[u].resourceID]) = 2

C17_State ==
    \A d \in Downloads :
        dbMutex = Holder("download", d, -1) <=> dl[d].pc = "locked"

C17_Step ==
    \A d \in Downloads :
        dl'[d] # dl[d] =>
            /\ fileChunksDB' = fileChunksDB
            /\ servers' = servers
            /\ dbMutex' # dbMutex => dl[d].pc \in {"lock", "locked"}

\* C17: no step of a download changes the registry or a backend's stored
\* chunks, whatever the outcome; the download holds the lock exactly between
\* its Lock and the end of its lookup, so not while it is in the fetch loop
\* or inside GetChunk.
C17_DownloadReadOnly == []C17_State /\ [][C17_Step]_vars

\* A download is inside GetChunk while a task of an upload holds the lock.
C17_Witness ==
    \E d \in Downloads :
        /\ dl[d].pc = "inGet"
        /\ dbMutex.kind = "task"

C18_State ==
    \A resourceID \in DOMAIN fileChunksDB :
        /\ Len(fileChunksDB[resourceID]) <= N
        /\ Cardinality(Orders(fileChunksDB[resourceID])) = Len(fileChunksDB[resourceID])

C18_Step ==
    \A resourceID \in DOMAIN fileChunksDB :
        /\ resourceID \in DOMAIN fileChunksDB'
        /\ Len(fileChunksDB'[resourceID]) >= Len(fileChunksDB[resourceID])
        /\ SubSeq(fileChunksDB'[resourceID], 1, Len(fileChunksDB[resourceID]))
              = fileChunksDB[resourceID]

\* C18: an entry never holds more records than there are backends, nor two
\* records of the same Order; no step removes an entry, and every step leaves
\* the records an entry already has in place and unchanged.
C18_EntryGrowsOnly == []C18_State /\ [][C18_Step]_vars

\* In the middle of an upload over two backends: one record is in the entry
\* and the other task holds the lock to append its own.
C18_Witness ==
    \E u \in Uploads : \E i \in Indexes(N) :
        /\ N = 2
        /\ task[u][i] = "locked"
        /\ Len(fileChunksDB[up[u].resourceID]) = 1

\* The scheduler runs a goroutine that can take a step, and every SaveChunk
\* and GetChunk call comes back: some enabled step is eventually taken.
FairSpec == Init /\ [][Next]_vars /\ WF_vars(Next)

\* Upload u is under way: the request was taken and not yet answered.
UnderWay(u) == up[u].pc \notin {"idle", "done"}

====
